---------------------------- MODULE Spec2Model ----------------------------
(***************************************************************************)
(* A model of src/app.py, the country-profile dashboard script: the        *)
(* filter (apply_filters), the aggregations (sum_apps, yoy_change, the     *)
(* top-filers ranking, the female share), the Sankey node/link             *)
(* construction, and the top-to-bottom re-run of the script that every     *)
(* widget change triggers.                                                 *)
(*                                                                         *)
(* A DataFrame is a record [cols, rows]: the set of its column names and   *)
(* the sequence of its rows, each row a record of its columns.  Python's   *)
(* None is the empty tuple and a present value x is <<x>>.  A float is a   *)
(* record [kind, n, d]: an exact fraction n/d in lowest terms, or NaN or   *)
(* an infinity, which is what the division of two integer columns yields.  *)
(***************************************************************************)
EXTENDS Integers, Sequences, FiniteSets, Bags, TLC

VARIABLES
    \* arguments and results of a call of apply_filters
    df, ip_types, year_min, year_max, out, out2,
    \* arguments and result of a call of yoy_change (on df)
    o, d, end_year, yoy,
    \* the script's globals
    flows, topfilers, gender,
    c1, c2, selected_ip, yr_from, yr_to, topn,
    flows_f, topfilers_f, gender_f,
    total_o_to_d, total_d_to_o, yoy_o_to_d, yoy_d_to_o,
    sankey, df_topn, df_g,
    \* position in the script (or in the call)
    pc

filterVars == <<df, ip_types, year_min, year_max, out, out2>>
yoyVars    == <<o, d, end_year, yoy>>
loadVars   == <<flows, topfilers, gender>>
widgetVars == <<c1, c2, selected_ip, yr_from, yr_to, topn>>
filteredVars == <<flows_f, topfilers_f, gender_f>>
kpiVars    == <<total_o_to_d, total_d_to_o, yoy_o_to_d, yoy_d_to_o>>
tabVars    == <<sankey, df_topn, df_g>>
vars == <<filterVars, yoyVars, loadVars, widgetVars, filteredVars, kpiVars,
          tabVars, pc>>

-----------------------------------------------------------------------------
(* Bounds of the model.                                                    *)

MaxFilterRows == 3
MaxYoYRows == 3
MaxSankeyRows == 2
MaxTopRows == 3
MaxGenderRows == 2
MaxFlowRows == 2

-----------------------------------------------------------------------------
(* Values.                                                                 *)

None == <<>>
Some(x) == <<x>>

Countries == {"Canada", "Japan"}
IpTypes == {"Patent", "Trademark"}
Years == {2023, 2024}

SeqsUpTo(S, n) == UNION {[1..k -> S] : k \in 0..n}

Abs(x) == IF x < 0 THEN -x ELSE x

RECURSIVE GCD(_, _)
GCD(a, b) == IF b = 0 THEN a ELSE GCD(b, a % b)

\* The float n/dn for integers n and dn # 0, as a fraction in lowest terms.
Num(n, dn) ==
    LET g == GCD(Abs(n), Abs(dn))
        s == IF dn < 0 THEN -1 ELSE 1
    IN  [kind |-> "num", n |-> (s * n) \div g, d |-> (s * dn) \div g]

NaN == [kind |-> "nan", n |-> 0, d |-> 0]
PosInf == [kind |-> "inf", n |-> 1, d |-> 0]
NegInf == [kind |-> "inf", n |-> -1, d |-> 0]
Zero == Num(0, 1)

\* Series / Series of two integer columns, element by element: x/0 is an
\* infinity of x's sign and 0/0 is NaN.
TrueDiv(x, y) ==
    IF y # 0 THEN Num(x, y)
    ELSE IF x = 0 THEN NaN
    ELSE IF x > 0 THEN PosInf ELSE NegInf

-----------------------------------------------------------------------------
(* DataFrames.                                                             *)

FlowCols == {"year", "origin_country", "dest_country", "ip_type", "applications"}
TopFilerCols == {"filer", "origin_country", "dest_country", "ip_type", "filings"}
GenderCols == {"year", "origin_country", "dest_country", "female_inventors",
               "male_inventors"}

DataFrame(cols, rows) == [cols |-> cols, rows |-> rows]

\* pd.DataFrame(): no columns, no rows.
EmptyDataFrame == DataFrame({}, <<>>)

\* DataFrame.empty: some axis has length 0.
Empty(t) == t.cols = {} \/ t.rows = <<>>

\* df[mask] is DataFrame(df.cols, SelectSeq(df.rows, Keep)): the rows whose
\* mask entry is true, in order, columns kept.


-----------------------------------------------------------------------------
(* apply_filters.                                                          *)

\* `if ip_types`: None and the empty list are both false.
Truthy(ips) == ips # None /\ ips[1] # {}

\* A variant that tests `ip_types is not None` instead of its truth value.
apply_filters_not_none(t, ips, ymin, ymax) ==
    IF Empty(t) THEN t
    ELSE LET InYears(r) == r.year >= ymin[1] /\ r.year <= ymax[1]
             IsIn(r) == r.ip_type \in ips[1]
             by_year == IF "year" \in t.cols /\ ymin # None /\ ymax # None
                        THEN DataFrame(t.cols, SelectSeq(t.rows, InYears)) ELSE t
         IN  IF ips # None /\ "ip_type" \in by_year.cols
             THEN DataFrame(by_year.cols, SelectSeq(by_year.rows, IsIn)) ELSE by_year

\* A variant that slices one row too many off the result (out.iloc[1:]).
apply_filters_slice(t, ips, ymin, ymax) ==
    IF Empty(t) THEN t
    ELSE LET InYears(r) == r.year >= ymin[1] /\ r.year <= ymax[1]
             IsIn(r) == r.ip_type \in ips[1]
             by_year == IF "year" \in t.cols /\ ymin # None /\ ymax # None
                        THEN DataFrame(t.cols, SelectSeq(t.rows, InYears)) ELSE t
             by_ip == IF Truthy(ips) /\ "ip_type" \in by_year.cols
                      THEN DataFrame(by_year.cols, SelectSeq(by_year.rows, IsIn)) ELSE by_year
         IN  IF by_ip.rows = <<>> THEN by_ip
             ELSE DataFrame(by_ip.cols, Tail(by_ip.rows))

\* apply_filters(df, ip_types, year_min, year_max): the returned frame.
apply_filters(t, ips, ymin, ymax) ==
    IF Empty(t) THEN t
    ELSE LET InYears(r) == r.year >= ymin[1] /\ r.year <= ymax[1]
             IsIn(r) == r.ip_type \in ips[1]
             by_year == IF "year" \in t.cols /\ ymin # None /\ ymax # None
                        THEN DataFrame(t.cols, SelectSeq(t.rows, InYears)) ELSE t
         IN  IF Truthy(ips) /\ "ip_type" \in by_year.cols
             THEN DataFrame(by_year.cols, SelectSeq(by_year.rows, IsIn)) ELSE by_year

\* A variant that filters the caller's frame in place (no copy, inplace drop).
apply_filters_inplace(t, ips, ymin, ymax) == apply_filters(t, ips, ymin, ymax)

\* The caller's frame after apply_filters(df, ...): the function works on
\* out = df.copy() and each mask builds a new frame, so df is never written.
apply_filters_df(t, ips, ymin, ymax) == t

FilterFlowRows ==
    [year : Years, origin_country : {"Canada"}, dest_country : {"Japan"},
     ip_type : IpTypes, applications : {100, 150}]
FilterGenderRows ==
    [year : Years, origin_country : {"Canada"}, dest_country : {"Japan"},
     female_inventors : {30}, male_inventors : {70}]
FilterTopFilerRows ==
    [filer : {"A", "B"}, origin_country : {"Canada"}, dest_country : {"Japan"},
     ip_type : IpTypes, filings : {10}]

\* Frames of the three shapes the script filters: with year and ip_type
\* (flows), with year only (gender), with ip_type only (top filers), and the
\* frame load_csv returns when there is no file at all.
FilterTables ==
    {DataFrame(FlowCols, r) : r \in SeqsUpTo(FilterFlowRows, MaxFilterRows)}
    \cup {DataFrame(GenderCols, r) : r \in SeqsUpTo(FilterGenderRows, MaxFilterRows)}
    \cup {DataFrame(TopFilerCols, r) : r \in SeqsUpTo(FilterTopFilerRows, MaxFilterRows)}
    \cup {EmptyDataFrame}

OptYears == {None} \cup {Some(y) : y \in Years}
OptIpTypes == {None} \cup {Some(S) : S \in SUBSET IpTypes}

-----------------------------------------------------------------------------
(* Values of the variables a specification does not use.                   *)

FilterIdle ==
    /\ df = EmptyDataFrame /\ ip_types = None
    /\ year_min = None /\ year_max = None
    /\ out = EmptyDataFrame /\ out2 = EmptyDataFrame
YoYIdle == o = "" /\ d = "" /\ end_year = 0 /\ yoy = None
LoadIdle ==
    flows = EmptyDataFrame /\ topfilers = EmptyDataFrame /\ gender = EmptyDataFrame
WidgetIdle ==
    /\ c1 = "" /\ c2 = "" /\ selected_ip = {}
    /\ yr_from = 0 /\ yr_to = 0 /\ topn = 0
FilteredIdle ==
    /\ flows_f = EmptyDataFrame /\ topfilers_f = EmptyDataFrame
    /\ gender_f = EmptyDataFrame
KpiIdle ==
    /\ total_o_to_d = 0 /\ total_d_to_o = 0
    /\ yoy_o_to_d = None /\ yoy_d_to_o = None
NoSankey == [shown |-> "unset", nodes |-> <<>>,
             links |-> [source |-> <<>>, target |-> <<>>, value |-> <<>>,
                        label |-> <<>>]]
TabIdle == sankey = NoSankey /\ df_topn = EmptyDataFrame /\ df_g = EmptyDataFrame

-----------------------------------------------------------------------------
(* SpecFilter: a call of apply_filters, and a second call on its result.   *)

InitFilter ==
    /\ df \in FilterTables
    /\ ip_types \in OptIpTypes
    /\ year_min \in OptYears
    /\ year_max \in OptYears
    /\ out = EmptyDataFrame /\ out2 = EmptyDataFrame
    /\ YoYIdle /\ LoadIdle /\ WidgetIdle /\ FilteredIdle /\ KpiIdle /\ TabIdle
    /\ pc = "call"

CallApplyFilters ==
    /\ pc = "call"
    /\ out' = apply_filters(df, ip_types, year_min, year_max)
    /\ df' = apply_filters_df(df, ip_types, year_min, year_max)
    /\ pc' = "returned"
    /\ UNCHANGED <<ip_types, year_min, year_max, out2, yoyVars, loadVars,
                   widgetVars, filteredVars, kpiVars, tabVars>>

CallApplyFiltersAgain ==
    /\ pc = "returned"
    /\ out2' = apply_filters(out, ip_types, year_min, year_max)
    /\ out' = apply_filters_df(out, ip_types, year_min, year_max)
    /\ pc' = "again"
    /\ UNCHANGED <<df, ip_types, year_min, year_max, yoyVars, loadVars,
                   widgetVars, filteredVars, kpiVars, tabVars>>

NextFilter == CallApplyFilters \/ CallApplyFiltersAgain

SpecFilter == InitFilter /\ [][NextFilter]_vars


RECURSIVE IsSubSeq(_, _)
\* s is t with some of its elements left out: nothing added, changed or moved.
IsSubSeq(s, t) ==
    IF s = <<>> THEN TRUE
    ELSE IF t = <<>> THEN FALSE
    ELSE IF Head(s) = Head(t) THEN IsSubSeq(Tail(s), Tail(t))
    ELSE IsSubSeq(s, Tail(t))

\* The rows of t that the year bounds alone let through.
RowsInYears(t, ymin, ymax) ==
    LET Ok(r) == ("year" \in t.cols /\ ymin # None /\ ymax # None)
                     => (ymin[1] <= r.year /\ r.year <= ymax[1])
    IN  SelectSeq(t.rows, Ok)

C2_FilterIsSubsetAndLeavesInput ==
    [][pc' = "returned"
         => /\ df' = df
            /\ out'.cols = df.cols
            /\ IsSubSeq(out'.rows, df.rows)]_vars

C2_Witness ==
    /\ pc = "returned" /\ out.rows # <<>> /\ Len(out.rows) < Len(df.rows)
    /\ Truthy(ip_types)

\* C3: apply_filters is idempotent: filtering the result again with the same
\* criteria gives the same rows in the same order.
C3_FilterIdempotent == pc = "again" => out2 = out

C3_Witness ==
    /\ pc = "again" /\ out2.rows # <<>> /\ Len(out2.rows) < Len(df.rows)
    /\ Truthy(ip_types) /\ year_min # None /\ year_max # None

-----------------------------------------------------------------------------
(* sum_apps and yoy_change.                                                *)

RECURSIVE SeqSum(_)
SeqSum(s) == IF s = <<>> THEN 0 ELSE Head(s) + SeqSum(Tail(s))

\* df.loc[mask, "applications"]: the column of the rows from o to d.
PairApplications(t, org, dst) ==
    LET Pair(r) == r.origin_country = org /\ r.dest_country = dst
        m == SelectSeq(t.rows, Pair)
    IN  [i \in DOMAIN m |-> m[i].applications]

sum_apps(t, org, dst) ==
    IF Empty(t) THEN 0 ELSE SeqSum(PairApplications(t, org, dst))

\* df[pair mask].groupby("year")["applications"].sum(): a series indexed by
\* the years that occur among the rows from o to d.
GroupByYearSum(t, org, dst) ==
    LET Pair(r) == r.origin_country = org /\ r.dest_country = dst
        m == SelectSeq(t.rows, Pair)
    IN  [y \in {m[i].year : i \in DOMAIN m} |->
            LET InYear(r) == r.year = y
                my == SelectSeq(m, InYear)
            IN  SeqSum([i \in DOMAIN my |-> my[i].applications])]

\* A variant that reports no change, 0, when the prior year sums to 0.
yoy_change_zero(t, org, dst, ey) ==
    IF Empty(t) THEN None
    ELSE LET df2 == GroupByYearSum(t, org, dst)
         IN  IF ey \notin DOMAIN df2 \/ (ey - 1) \notin DOMAIN df2 THEN None
             ELSE LET prev == df2[ey - 1]
                  IN  IF prev = 0 THEN Some(Zero)
                      ELSE Some(Num(100 * (df2[ey] - prev), prev))

yoy_change(t, org, dst, ey) ==
    IF Empty(t) THEN None
    ELSE LET df2 == GroupByYearSum(t, org, dst)
         IN  IF ey \notin DOMAIN df2 \/ (ey - 1) \notin DOMAIN df2 THEN None
             ELSE LET prev == df2[ey - 1]
                  IN  IF prev = 0 THEN None
                      ELSE Some(Num(100 * (df2[ey] - prev), prev))

YoYRows ==
    {r \in [year : Years, origin_country : Countries, dest_country : Countries,
            ip_type : {"Patent"}, applications : {0, 100, 150}] :
        r.origin_country # r.dest_country}

YoYTables ==
    {DataFrame(FlowCols, r) : r \in SeqsUpTo(YoYRows, MaxYoYRows)}
    \cup {EmptyDataFrame}

\* 2024 has a prior year in Years, 2025 is a year no row has.
EndYears == {2024, 2025}

-----------------------------------------------------------------------------
(* SpecYoY: a call of yoy_change.                                          *)

InitYoY ==
    /\ df \in YoYTables
    /\ o = "Canada" /\ d \in Countries /\ end_year \in EndYears
    /\ yoy = None
    /\ ip_types = None /\ year_min = None /\ year_max = None
    /\ out = EmptyDataFrame /\ out2 = EmptyDataFrame
    /\ LoadIdle /\ WidgetIdle /\ FilteredIdle /\ KpiIdle /\ TabIdle
    /\ pc = "call"

CallYoYChange ==
    /\ pc = "call"
    /\ yoy' = yoy_change(df, o, d, end_year)
    /\ pc' = "returned"
    /\ UNCHANGED <<filterVars, o, d, end_year, loadVars, widgetVars,
                   filteredVars, kpiVars, tabVars>>

NextYoY == CallYoYChange

SpecYoY == InitYoY /\ [][NextYoY]_vars

RECURSIVE SumAt(_, _)
\* The sum of the applications of the rows of df at the positions in S.
SumAt(rows, S) ==
    IF S = {} THEN 0
    ELSE LET i == CHOOSE j \in S : TRUE
         IN  rows[i].applications + SumAt(rows, S \ {i})

\* The positions of the rows of df from o to d in year y.
PairYear(y) ==
    {i \in DOMAIN df.rows :
        /\ df.rows[i].origin_country = o /\ df.rows[i].dest_country = d
        /\ df.rows[i].year = y}

\* C4: yoy_change returns 100 * (curr - prev) / prev, curr and prev the sums
\* of the matching rows' applications in end_year and end_year - 1, exactly
\* when both years occur among the matching rows and prev is nonzero; in
\* every other case it returns None, never 0.
C4_YoYValueOrAbsent ==
    pc = "returned" =>
        LET curr == SumAt(df.rows, PairYear(end_year))
            prev == SumAt(df.rows, PairYear(end_year - 1))
        IN  IF PairYear(end_year) # {} /\ PairYear(end_year - 1) # {} /\ prev # 0
            THEN yoy = Some(Num(100 * (curr - prev), prev))
            ELSE yoy = None

\* Two rows of 2023 that sum to 200 and a row of 150 in 2024: -25 %.
C4_Witness ==
    /\ pc = "returned" /\ Len(df.rows) = 3
    /\ Cardinality(PairYear(end_year - 1)) = 2
    /\ yoy = Some(Num(-25, 1))


-----------------------------------------------------------------------------
(* The tabs: rows of the selected pair.                                    *)

Range(s) == {s[i] : i \in DOMAIN s}

Min(a, b) == IF a <= b THEN a ELSE b

\* t[(t["origin_country"]==a) & (t["dest_country"]==b)]
PairRows(t, a, b) ==
    LET Pair(r) == r.origin_country = a /\ r.dest_country = b
    IN  DataFrame(t.cols, SelectSeq(t.rows, Pair))

\* The rows of either direction between a and b (df_sankey).
BothWaysRows(t, a, b) ==
    LET Pair(r) == \/ (r.origin_country = a /\ r.dest_country = b)
                   \/ (r.origin_country = b /\ r.dest_country = a)
    IN  DataFrame(t.cols, SelectSeq(t.rows, Pair))

-----------------------------------------------------------------------------
(* The gender tab: the total and female_share columns.                     *)

\* .replace([inf, -inf], 0)
ReplaceInf(x) == IF x.kind = "inf" THEN Zero ELSE x

\* .fillna(0)
FillNa(x) == IF x.kind = "nan" THEN Zero ELSE x

\* A variant without the trailing .fillna(0).
female_share_nan(f, total) == ReplaceInf(TrueDiv(f, total))

female_share(f, total) == FillNa(ReplaceInf(TrueDiv(f, total)))

\* df_g with the two columns added, row by row.
WithShare(t) ==
    DataFrame(t.cols \cup {"total", "female_share"},
        [i \in DOMAIN t.rows |->
            LET r == t.rows[i]
                total == r.female_inventors + r.male_inventors
            IN  [year |-> r.year, origin_country |-> r.origin_country,
                 dest_country |-> r.dest_country,
                 female_inventors |-> r.female_inventors,
                 male_inventors |-> r.male_inventors,
                 total |-> total,
                 female_share |-> female_share(r.female_inventors, total)]])

\* The tab's df_g: the pair's rows, with the columns added unless empty.
GenderTab(t, a, b) ==
    LET rows == PairRows(t, a, b)
    IN  IF Empty(rows) THEN rows ELSE WithShare(rows)

GenderRows ==
    [year : {2024}, origin_country : {"Canada"}, dest_country : {"Japan"},
     female_inventors : {0, 30, 70}, male_inventors : {0, 30, 70}]

GenderTables == {DataFrame(GenderCols, r) : r \in SeqsUpTo(GenderRows, MaxGenderRows)}

InitGender ==
    /\ gender_f \in GenderTables
    /\ c1 = "Canada" /\ c2 \in Countries
    /\ selected_ip = {} /\ yr_from = 0 /\ yr_to = 0 /\ topn = 0
    /\ flows_f = EmptyDataFrame /\ topfilers_f = EmptyDataFrame
    /\ FilterIdle /\ YoYIdle /\ LoadIdle /\ KpiIdle /\ TabIdle
    /\ pc = "call"

ShowGenderTab ==
    /\ pc = "call"
    /\ df_g' = GenderTab(gender_f, c1, c2)
    /\ pc' = "returned"
    /\ UNCHANGED <<filterVars, yoyVars, loadVars, widgetVars, filteredVars,
                   kpiVars, sankey, df_topn>>

NextGender == ShowGenderTab

SpecGender == InitGender /\ [][NextGender]_vars

\* C5: for every gender record with non-negative counts the share is a
\* number in [0, 1], equal to female / (female + male) when the sum is
\* positive and exactly 0 (no NaN, no infinity) when both counts are 0.
C5_FemaleShare ==
    pc = "returned" =>
        \A i \in DOMAIN df_g.rows :
            LET r == df_g.rows[i]
                f == r.female_inventors
                m == r.male_inventors
                x == r.female_share
            IN  /\ x.kind = "num" /\ x.d > 0
                /\ 0 <= x.n /\ x.n <= x.d
                /\ (f + m > 0) => x.n * (f + m) = f * x.d
                /\ (f = 0 /\ m = 0) => (x.n = 0 /\ x.d = 1)

C5_Witness ==
    /\ pc = "returned" /\ Len(df_g.rows) = 2
    /\ df_g.rows[1].female_inventors = 0 /\ df_g.rows[1].male_inventors = 0
    /\ df_g.rows[1].female_share = Zero
    /\ df_g.rows[2].female_inventors = 30 /\ df_g.rows[2].male_inventors = 70
    /\ df_g.rows[2].female_share = Num(3, 10)

-----------------------------------------------------------------------------
(* The Sankey nodes and links.                                             *)

\* list(S): the elements of a set, once each, in an order the language does
\* not fix.
Orderings(S) ==
    {p \in [1..Cardinality(S) -> S] : \A i, j \in DOMAIN p : p[i] = p[j] => i = j}

\* {n: i for i, n in enumerate(nodes)}
NodeIndex(nodes) ==
    [n \in Range(nodes) |-> (CHOOSE i \in DOMAIN nodes : nodes[i] = n) - 1]

NoLinks == [source |-> <<>>, target |-> <<>>, value |-> <<>>, label |-> <<>>]

\* A variant that appends the target index to source and the source to target.
Links_swapped(rows, nodes) ==
    LET node_index == NodeIndex(nodes)
    IN  [source |-> [i \in DOMAIN rows |-> node_index[rows[i].dest_country]],
         target |-> [i \in DOMAIN rows |-> node_index[rows[i].origin_country]],
         value  |-> [i \in DOMAIN rows |-> Num(rows[i].applications, 1)],
         label  |-> [i \in DOMAIN rows |->
                        <<rows[i].origin_country, rows[i].dest_country,
                          rows[i].ip_type>>]]

\* The four lists of links after the loop over df_sankey.iterrows(); a label
\* is kept as the three strings it is formatted from.
Links(rows, nodes) ==
    LET node_index == NodeIndex(nodes)
    IN  [source |-> [i \in DOMAIN rows |-> node_index[rows[i].origin_country]],
         target |-> [i \in DOMAIN rows |-> node_index[rows[i].dest_country]],
         value  |-> [i \in DOMAIN rows |-> Num(rows[i].applications, 1)],
         label  |-> [i \in DOMAIN rows |->
                        <<rows[i].origin_country, rows[i].dest_country,
                          rows[i].ip_type>>]]

\* A variant that builds the graph without asking whether df_sankey is empty.
SankeyFigures_unguarded(t, a, b) ==
    LET df_sankey == BothWaysRows(t, a, b)
        ips == {df_sankey.rows[i].ip_type : i \in DOMAIN df_sankey.rows}
    IN  {[shown |-> "graph", nodes |-> nodes,
          links |-> Links(df_sankey.rows, nodes)] :
            nodes \in Orderings({a, b} \cup ips)}

\* What the Sankey part of the tab can leave: the no-data message and no
\* graph, or a graph, one for every order list() can give the node set.
SankeyFigures(t, a, b) ==
    LET df_sankey == BothWaysRows(t, a, b)
        ips == {df_sankey.rows[i].ip_type : i \in DOMAIN df_sankey.rows}
    IN  IF Empty(df_sankey)
        THEN {[shown |-> "info", nodes |-> <<>>, links |-> NoLinks]}
        ELSE {[shown |-> "graph", nodes |-> nodes,
               links |-> Links(df_sankey.rows, nodes)] :
                 nodes \in Orderings({a, b} \cup ips)}

SankeyRows ==
    [year : {2024}, origin_country : Countries, dest_country : Countries,
     ip_type : IpTypes, applications : {100, 150}]

SankeyTables == {DataFrame(FlowCols, r) : r \in SeqsUpTo(SankeyRows, MaxSankeyRows)}

InitSankey ==
    /\ flows_f \in SankeyTables
    /\ c1 \in Countries /\ c2 \in Countries
    /\ selected_ip = {} /\ yr_from = 0 /\ yr_to = 0 /\ topn = 0
    /\ topfilers_f = EmptyDataFrame /\ gender_f = EmptyDataFrame
    /\ FilterIdle /\ YoYIdle /\ LoadIdle /\ KpiIdle /\ TabIdle
    /\ pc = "call"

ShowSankey ==
    /\ pc = "call"
    /\ sankey' \in SankeyFigures(flows_f, c1, c2)
    /\ pc' = "returned"
    /\ UNCHANGED <<filterVars, yoyVars, loadVars, widgetVars, filteredVars,
                   kpiVars, df_topn, df_g>>

NextSankey == ShowSankey

SpecSankey == InitSankey /\ [][NextSankey]_vars

\* The positions in flows_f of the rows between c1 and c2, either way.
FlowPositions ==
    {i \in DOMAIN flows_f.rows :
        LET r == flows_f.rows[i]
        IN  \/ (r.origin_country = c1 /\ r.dest_country = c2)
            \/ (r.origin_country = c2 /\ r.dest_country = c1)}

\* The position in flows_f of the k-th such row.
FlowPosition(k) ==
    CHOOSE i \in FlowPositions :
        Cardinality({j \in FlowPositions : j <= i}) = k

\* C6: for a non-empty set of flow rows between the pair (the self-pair
\* included) there is exactly one edge per row, in row order, whose source
\* and target are valid indices of the row's origin and destination in the
\* node list and whose weight is the row's applications; the node list has
\* no duplicates and holds the two countries and the rows' ip types.
C6_OneEdgePerRow ==
    (pc = "returned" /\ FlowPositions # {}) =>
        LET n == Cardinality(FlowPositions)
            nodes == sankey.nodes
            links == sankey.links
        IN  /\ sankey.shown = "graph"
            /\ Len(links.source) = n /\ Len(links.target) = n
            /\ Len(links.value) = n /\ Len(links.label) = n
            /\ \A k \in 1..n :
                 LET r == flows_f.rows[FlowPosition(k)]
                 IN  /\ links.source[k] \in 0..(Len(nodes) - 1)
                     /\ links.target[k] \in 0..(Len(nodes) - 1)
                     /\ nodes[links.source[k] + 1] = r.origin_country
                     /\ nodes[links.target[k] + 1] = r.dest_country
                     /\ links.value[k].kind = "num"
                     /\ links.value[k].n = r.applications * links.value[k].d
            /\ \A i, j \in DOMAIN nodes : nodes[i] = nodes[j] => i = j
            /\ Range(nodes) =
                 {c1, c2} \cup {flows_f.rows[i].ip_type : i \in FlowPositions}

C6_Witness ==
    /\ pc = "returned" /\ Cardinality(FlowPositions) = 2
    /\ Len(sankey.nodes) = 4 /\ Len(sankey.links.source) = 2
    /\ sankey.links.source[1] # sankey.links.source[2]

C6_WitnessSelfPair ==
    /\ pc = "returned" /\ c1 = c2 /\ FlowPositions # {}
    /\ sankey.shown = "graph"

\* C7: on an empty set of flow rows for the pair there is a graph of zero
\* nodes and zero edges (the two countries are not nodes) and the no-data
\* message is shown in place of a figure.
C7_NoRowsNoGraph ==
    (pc = "returned" /\ FlowPositions = {}) =>
        /\ sankey.shown = "info"
        /\ sankey.nodes = <<>>
        /\ sankey.links = NoLinks

C7_Witness ==
    /\ pc = "returned" /\ flows_f.rows # <<>> /\ FlowPositions = {}
    /\ sankey.shown = "info"


-----------------------------------------------------------------------------
(* The top-filers tab: sort_values("filings", ascending=False).head(topn). *)

\* A variant that sorts ascending (ascending=False left out).
SortValues_ascending(rows) ==
    {[i \in DOMAIN rows |-> rows[p[i]]] :
        p \in {q \in Orderings(DOMAIN rows) :
                 \A i, j \in DOMAIN rows :
                     i < j => rows[q[i]].filings <= rows[q[j]].filings}}

\* sort_values with the default kind, quicksort, which pandas documents as
\* not stable: every order of the rows by filings descending is a possible
\* result, rows of equal filings in any relative order.
SortValues(rows) ==
    {[i \in DOMAIN rows |-> rows[p[i]]] :
        p \in {q \in Orderings(DOMAIN rows) :
                 \A i, j \in DOMAIN rows :
                     i < j => rows[q[i]].filings >= rows[q[j]].filings}}

\* .head(n)
HeadRows(rows, n) == SubSeq(rows, 1, Min(n, Len(rows)))

\* The frames df_topn can be for a non-empty df_top.
TopN(df_top, n) ==
    {DataFrame(df_top.cols, HeadRows(sorted, n)) : sorted \in SortValues(df_top.rows)}

TopFilerRows ==
    [filer : {"A", "B", "C"}, origin_country : {"Canada"},
     dest_country : {"Japan"}, ip_type : {"Patent"}, filings : {10, 20, 30}]
    \cup
    [filer : {"D"}, origin_country : {"Japan"}, dest_country : {"Canada"},
     ip_type : {"Patent"}, filings : {30}]

TopFilerTables ==
    {DataFrame(TopFilerCols, r) : r \in SeqsUpTo(TopFilerRows, MaxTopRows)}

\* "How many to show": the slider's minimum and default (5, 10), and 2, a
\* count below the number of rows a small frame can hold.
TopNs == {2, 5, 10}

InitTopN ==
    /\ topfilers_f \in TopFilerTables
    /\ c1 = "Canada" /\ c2 = "Japan" /\ topn \in TopNs
    /\ selected_ip = {} /\ yr_from = 0 /\ yr_to = 0
    /\ flows_f = EmptyDataFrame /\ gender_f = EmptyDataFrame
    /\ FilterIdle /\ YoYIdle /\ LoadIdle /\ KpiIdle /\ TabIdle
    /\ pc = "call"

ShowTopFilers ==
    /\ pc = "call"
    /\ LET df_top == PairRows(topfilers_f, c1, c2)
       IN  IF Empty(df_top) THEN df_topn' = df_topn
           ELSE df_topn' \in TopN(df_top, topn)
    /\ pc' = "returned"
    /\ UNCHANGED <<filterVars, yoyVars, loadVars, widgetVars, filteredVars,
                   kpiVars, sankey, df_g>>

NextTopN == ShowTopFilers

SpecTopN == InitTopN /\ [][NextTopN]_vars

\* The positions in topfilers_f of the rows from c1 to c2.
TopPositions ==
    {i \in DOMAIN topfilers_f.rows :
        /\ topfilers_f.rows[i].origin_country = c1
        /\ topfilers_f.rows[i].dest_country = c2}

\* The positions ordered by filings descending, equal filings by position.
StableOrder ==
    CHOOSE p \in Orderings(TopPositions) :
        \A i, j \in DOMAIN p :
            i < j => \/ topfilers_f.rows[p[i]].filings > topfilers_f.rows[p[j]].filings
                     \/ /\ topfilers_f.rows[p[i]].filings = topfilers_f.rows[p[j]].filings
                        /\ p[i] < p[j]

StableTopN ==
    [i \in 1..Min(topn, Cardinality(TopPositions)) |-> topfilers_f.rows[StableOrder[i]]]

\* C8 as stated: the result is the first min(n, k) of the k matching rows
\* ordered by filings descending, rows of equal filings in their original
\* relative order.
C8_StableTopN == pc = "returned" => df_topn.rows = StableTopN

\* How many times x occurs in s.
Count(s, x) == Cardinality({i \in DOMAIN s : s[i] = x})

\* C8 amended: the result holds min(n, k) of the k matching rows, each at
\* most as often as it occurs among them, in order of filings descending,
\* and no row left out has more filings than a row kept; rows of equal
\* filings come in no fixed relative order, and when all matching filings
\* differ the result is the stable one.
C8_TopNUpToTies ==
    pc = "returned" =>
        LET r == df_topn.rows
            m == [i \in TopPositions |-> topfilers_f.rows[i]]
            all == {m[i] : i \in TopPositions}
        IN  /\ Len(r) = Min(topn, Cardinality(TopPositions))
            /\ \A i, j \in DOMAIN r : i < j => r[i].filings >= r[j].filings
            /\ \A x \in Range(r) :
                 Count(r, x) <= Cardinality({i \in TopPositions : m[i] = x})
            /\ \A x \in all :
                 Count(r, x) < Cardinality({i \in TopPositions : m[i] = x})
                     => \A i \in DOMAIN r : r[i].filings >= x.filings
            /\ (\A i, j \in TopPositions : m[i].filings = m[j].filings => i = j)
                 => r = StableTopN

\* Filings [30, 10, 20] of filers [A, B, C] and n = 2 give [A, C].
C8_Witness ==
    /\ pc = "returned" /\ topn = 2 /\ Len(topfilers_f.rows) = 3
    /\ \A i \in 1..3 : topfilers_f.rows[i].origin_country = "Canada"
    /\ topfilers_f.rows[1].filer = "A" /\ topfilers_f.rows[1].filings = 30
    /\ topfilers_f.rows[2].filer = "B" /\ topfilers_f.rows[2].filings = 10
    /\ topfilers_f.rows[3].filer = "C" /\ topfilers_f.rows[3].filings = 20
    /\ Len(df_topn.rows) = 2
    /\ df_topn.rows[1].filer = "A" /\ df_topn.rows[2].filer = "C"


-----------------------------------------------------------------------------
(* Spec: the script.  Streamlit runs it from the top once per session and  *)
(* again, in a fresh namespace, after every change of a widget; a change   *)
(* made while it runs stops that run and starts the next.  The loaded      *)
(* frames come from the cached load_csv and the widgets keep their values  *)
(* from one run to the next.                                               *)

TopNDefault == 10

\* sorted(...) of country names and of ip types.
CountryOrder == <<"Canada", "Japan">>
SortedCountries(S) == LET In(c) == c \in S IN SelectSeq(CountryOrder, In)

all_countries(t) ==
    SortedCountries({t.rows[i].origin_country : i \in DOMAIN t.rows}
                    \cup {t.rows[i].dest_country : i \in DOMAIN t.rows})

default_pair(t) ==
    LET all == all_countries(t)
    IN  IF {"Canada", "Japan"} \subseteq Range(all) THEN <<"Canada", "Japan">>
        ELSE <<all[1], all[Min(1, Len(all) - 1) + 1]>>

ip_options(t) ==
    IF Empty(t) THEN {} ELSE {t.rows[i].ip_type : i \in DOMAIN t.rows}

RECURSIVE SetMin(_)
SetMin(S) ==
    LET x == CHOOSE y \in S : TRUE
    IN  IF S = {x} THEN x ELSE Min(x, SetMin(S \ {x}))

RECURSIVE SetMax(_)
SetMax(S) ==
    LET x == CHOOSE y \in S : TRUE
    IN  IF S = {x} THEN x ELSE -Min(-x, -SetMax(S \ {x}))

min_year(t) == SetMin({t.rows[i].year : i \in DOMAIN t.rows})
max_year(t) == SetMax({t.rows[i].year : i \in DOMAIN t.rows})

\* The script's globals before the run has bound them.
Unbound ==
    /\ flows_f = EmptyDataFrame /\ topfilers_f = EmptyDataFrame
    /\ gender_f = EmptyDataFrame
    /\ total_o_to_d = 0 /\ total_d_to_o = 0
    /\ yoy_o_to_d = None /\ yoy_d_to_o = None
    /\ sankey = NoSankey /\ df_topn = EmptyDataFrame /\ df_g = EmptyDataFrame

\* A flows file: rows of either direction, 100 applications in a row of 2023
\* and 150 in a row of 2024.
ScriptFlowRows ==
    {r \in [year : Years, origin_country : Countries, dest_country : Countries,
            ip_type : IpTypes, applications : {100, 150}] :
        /\ r.origin_country # r.dest_country
        /\ r.applications = (IF r.year = 2023 THEN 100 ELSE 150)}

\* The script needs a flows frame with at least one row (line 85 indexes its
\* columns and line 86 the country list).
ScriptFlows ==
    {DataFrame(FlowCols, r) : r \in SeqsUpTo(ScriptFlowRows, MaxFlowRows) \ {<<>>}}

SampleTopFilers ==
    DataFrame(TopFilerCols,
      <<[filer |-> "A", origin_country |-> "Canada", dest_country |-> "Japan",
         ip_type |-> "Patent", filings |-> 30],
        [filer |-> "B", origin_country |-> "Canada", dest_country |-> "Japan",
         ip_type |-> "Trademark", filings |-> 10],
        [filer |-> "C", origin_country |-> "Canada", dest_country |-> "Japan",
         ip_type |-> "Patent", filings |-> 20],
        [filer |-> "D", origin_country |-> "Japan", dest_country |-> "Canada",
         ip_type |-> "Patent", filings |-> 30]>>)

SampleGender ==
    DataFrame(GenderCols,
      <<[year |-> 2023, origin_country |-> "Canada", dest_country |-> "Japan",
         female_inventors |-> 30, male_inventors |-> 70],
        [year |-> 2024, origin_country |-> "Canada", dest_country |-> "Japan",
         female_inventors |-> 0, male_inventors |-> 0]>>)

Init ==
    /\ flows \in ScriptFlows
    /\ topfilers = SampleTopFilers
    /\ gender = SampleGender
    /\ c1 = default_pair(flows)[1] /\ c2 = default_pair(flows)[2]
    /\ selected_ip = ip_options(flows)
    /\ yr_from = min_year(flows) /\ yr_to = max_year(flows)
    /\ topn = TopNDefault
    /\ Unbound
    /\ FilterIdle /\ YoYIdle
    /\ pc = "filter"

\* A variant in which a widget change is recorded but starts no new run.
Rerun_none == UNCHANGED <<filteredVars, kpiVars, tabVars, pc>>

\* The re-run a widget change triggers: the script starts again from the top
\* with none of its globals bound.
Rerun ==
    /\ flows_f' = EmptyDataFrame /\ topfilers_f' = EmptyDataFrame
    /\ gender_f' = EmptyDataFrame
    /\ total_o_to_d' = 0 /\ total_d_to_o' = 0
    /\ yoy_o_to_d' = None /\ yoy_d_to_o' = None
    /\ sankey' = NoSankey /\ df_topn' = EmptyDataFrame /\ df_g' = EmptyDataFrame
    /\ pc' = "filter"

SelectOrigin ==
    /\ \E c \in Range(all_countries(flows)) : c # c1 /\ c1' = c
    /\ Rerun
    /\ UNCHANGED <<filterVars, yoyVars, loadVars, c2, selected_ip, yr_from,
                   yr_to, topn>>

SelectDestination ==
    /\ \E c \in Range(all_countries(flows)) : c # c2 /\ c2' = c
    /\ Rerun
    /\ UNCHANGED <<filterVars, yoyVars, loadVars, c1, selected_ip, yr_from,
                   yr_to, topn>>

SelectIpTypes ==
    /\ \E S \in SUBSET ip_options(flows) : S # selected_ip /\ selected_ip' = S
    /\ Rerun
    /\ UNCHANGED <<filterVars, yoyVars, loadVars, c1, c2, yr_from, yr_to, topn>>

SlideYears ==
    /\ \E a, b \in min_year(flows)..max_year(flows) :
          /\ a <= b /\ <<a, b>> # <<yr_from, yr_to>>
          /\ yr_from' = a /\ yr_to' = b
    /\ Rerun
    /\ UNCHANGED <<filterVars, yoyVars, loadVars, c1, c2, selected_ip, topn>>

\* Lines 118-120.
ApplyFilters ==
    /\ pc = "filter"
    /\ flows_f' = apply_filters(flows, Some(selected_ip), Some(yr_from), Some(yr_to))
    /\ topfilers_f' = apply_filters(topfilers, Some(selected_ip), Some(yr_from), Some(yr_to))
    /\ gender_f' = apply_filters(gender, None, Some(yr_from), Some(yr_to))
    /\ flows' = apply_filters_df(flows, Some(selected_ip), Some(yr_from), Some(yr_to))
    /\ topfilers' = apply_filters_df(topfilers, Some(selected_ip), Some(yr_from), Some(yr_to))
    /\ gender' = apply_filters_df(gender, None, Some(yr_from), Some(yr_to))
    /\ pc' = "kpi"
    /\ UNCHANGED <<filterVars, yoyVars, widgetVars, kpiVars, tabVars>>

\* A variant that computes the change on the unfiltered flows.
KpiYoY_unfiltered(a, b) == yoy_change(flows, a, b, yr_to)

\* Lines 159-160: the change up to the last selected year, on flows_f.
KpiYoY(a, b) == yoy_change(flows_f, a, b, yr_to)

\* Lines 148-160.
ComputeKpis ==
    /\ pc = "kpi"
    /\ total_o_to_d' = sum_apps(flows_f, c1, c2)
    /\ total_d_to_o' = sum_apps(flows_f, c2, c1)
    /\ yoy_o_to_d' = KpiYoY(c1, c2)
    /\ yoy_d_to_o' = KpiYoY(c2, c1)
    /\ pc' = "tabs"
    /\ UNCHANGED <<filterVars, yoyVars, loadVars, widgetVars, filteredVars, tabVars>>

\* Lines 202-263: the Sankey, top-filers and gender tabs, to the end of the
\* script.
ShowTabs ==
    /\ pc = "tabs"
    /\ sankey' \in SankeyFigures(flows_f, c1, c2)
    /\ LET df_top == PairRows(topfilers_f, c1, c2)
       IN  IF Empty(df_top) THEN df_topn' = df_topn
           ELSE df_topn' \in TopN(df_top, topn)
    /\ df_g' = GenderTab(gender_f, c1, c2)
    /\ pc' = "done"
    /\ UNCHANGED <<filterVars, yoyVars, loadVars, widgetVars, filteredVars, kpiVars>>

Next ==
    \/ SelectOrigin
    \/ SelectDestination
    \/ SelectIpTypes
    \/ SlideYears
    \/ ApplyFilters
    \/ ComputeKpis
    \/ ShowTabs

Spec == Init /\ [][Next]_vars

\* C9: once the re-run that a change of the pair, the year range or the ip
\* types triggered has completed, every derived view is what the pipeline
\* gives for the loaded frames and the current widget values alone; one
\* position in the script is all there is, so runs do not overlap.
C9_ViewsFollowCurrentParameters ==
    pc = "done" =>
        LET f == apply_filters(flows, Some(selected_ip), Some(yr_from), Some(yr_to))
        IN  /\ flows_f = f
            /\ topfilers_f = apply_filters(topfilers, Some(selected_ip),
                                           Some(yr_from), Some(yr_to))
            /\ gender_f = apply_filters(gender, None, Some(yr_from), Some(yr_to))
            /\ total_o_to_d = sum_apps(f, c1, c2)
            /\ total_d_to_o = sum_apps(f, c2, c1)
            /\ yoy_o_to_d = yoy_change(f, c1, c2, yr_to)
            /\ yoy_d_to_o = yoy_change(f, c2, c1, yr_to)
            /\ sankey \in SankeyFigures(f, c1, c2)

\* A completed run under a pair, a year range and ip types that are all
\* other than the session's first ones.
C9_Witness ==
    /\ pc = "done"
    /\ c1 = "Japan" /\ c2 = "Canada"
    /\ selected_ip = {"Patent"} /\ ip_options(flows) = IpTypes
    /\ yr_from = 2024 /\ yr_to = 2024 /\ min_year(flows) = 2023
    /\ sankey.shown = "graph" /\ total_o_to_d = 150

\* C10: the two changes shown are computed on the year-filtered flows with
\* end_year = yr_to, so when the range is a single year both are absent,
\* whatever the unfiltered flows hold for the year before.
C10_SingleYearNoYoY ==
    (pc \in {"tabs", "done"} /\ yr_from = yr_to) =>
        (yoy_o_to_d = None /\ yoy_d_to_o = None)

C10_Witness ==
    /\ pc = "done" /\ yr_from = yr_to
    /\ yoy_change(flows, c1, c2, yr_to) # None
    /\ yoy_o_to_d = None /\ yoy_d_to_o = None

=============================================================================
